---- MODULE Spec2Model ----
(***************************************************************************)
(* RAM page cache of plone.app.caching: the helpers of operations/utils.py *)
(* (key derivation, ETag composition, header policies, cacheInRAM,         *)
(* fetchFromRAMCache, cachedResponse, storeResponseInRAMCache) and the     *)
(* transform chain element Store of operations/ramcache.py.                *)
(*                                                                         *)
(* Conventions.  Python's None is the string None where the other values   *)
(* are strings (cache keys, header arguments) and the empty tuple where    *)
(* they are tuples (a cached triple).  Byte strings are sequences of       *)
(* numbers 0..255, unicode strings sequences of code points, ETag tokens   *)
(* sequences of one-character strings.  A datetime is a number of seconds. *)
(***************************************************************************)
EXTENDS Integers, Sequences, FiniteSets, TLC

\* ------------------------------------------------------------- bounds
NumRequests == 2
MaxChain == 2
MaxKeys == 2
MaxExtra == 2
MaxTime == 1

\* ---------------------------------------------------------- constants
PAGE_CACHE_KEY == "plone.app.caching.operations.pagecache"
PAGE_CACHE_ANNOTATION_KEY == "plone.app.caching.operations.pagecache.key"
GLOBAL_KEY == "plone.app.caching.operations.ramcache"
TenYears == 10 * 365 * 24 * 3600

None == "None"
NoEntry == <<>>

Requests == 1..NumRequests

\* ------------------------------------------------- getRAMCacheKey
\* A published object is its __parent__ chain, nearest ancestor first; the
\* empty chain is an object without __parent__ (or with __parent__ None).
\* Each ancestor says whether it provides ITraversable and what
\* absolute_url_path() returns.
Paths == {"/site/a", "/site"}
Ancestors == [traversable : BOOLEAN, path : Paths]
Chains == UNION {[1..n -> Ancestors] : n \in 0..MaxChain}
Urls == {"http://host/site/a/view", "http://host/site/b"}

getRAMCacheKey_AnyAncestor(pub, url) ==
    LET idx == {i \in DOMAIN pub : pub[i].traversable}
    IN  IF idx = {} THEN url
        ELSE pub[CHOOSE i \in idx : \A j \in idx : i <= j].path

getRAMCacheKey(pub, url) ==
    IF Len(pub) > 0 /\ pub[1].traversable
    THEN pub[1].path
    ELSE url

\* ------------------------------------------------------------ getETag
Tokens == {<<"a", ",", "b">>, <<"c">>, <<>>}
SourceNames == {"userid", "roles"}
\* A registry of IETagValue adapters: a name outside its domain is not
\* registered; a registered component returns None (<<>>) or a token (<<t>>).
SourceResults == {<<>>, <<<<"a", ",", "b">>>>, <<<<"c">>>>}
Registries == UNION {[D -> SourceResults] : D \in SUBSET SourceNames}

RECURSIVE ValueTokens(_, _)
ValueTokens(reg, keys) ==
    IF keys = <<>> THEN <<>>
    ELSE LET key == Head(keys)
             found == IF key \notin DOMAIN reg THEN <<>>
                      ELSE IF reg[key] = <<>> THEN <<>>
                      ELSE <<reg[key][1]>>
         IN  found \o ValueTokens(reg, Tail(keys))

RECURSIVE Join(_, _)
Join(sep, tokens) ==
    IF tokens = <<>> THEN <<>>
    ELSE IF Len(tokens) = 1 THEN tokens[1]
    ELSE tokens[1] \o sep \o Join(sep, Tail(tokens))

Replace(s, old, new) == [i \in DOMAIN s |-> IF s[i] = old THEN new ELSE s[i]]

\* The keys logger.warning() is called for.
Unregistered(reg, keys) == SelectSeq(keys, LAMBDA k : k \notin DOMAIN reg)

getETag_KeepCommas(reg, keys, extraTokens) ==
    <<"|">> \o Join(<<"|">>, ValueTokens(reg, keys) \o extraTokens)

getETag(reg, keys, extraTokens) ==
    LET tokens == ValueTokens(reg, keys) \o extraTokens
        etag == <<"|">> \o Join(<<"|">>, tokens)
    IN  Replace(etag, ",", ";")

\* --------------------------------------------------- response headers
\* response.headers is a dict; response.setHeader() files a header under
\* the lower-cased name unless literal is set, and then under the name as
\* given.  The helpers below read the dict under its lower-case names.
Lower(name) ==
    CASE name \in {"ETag", "etag"} -> "etag"
      [] name \in {"Last-Modified", "last-modified", "LAST-MODIFIED"}
            -> "last-modified"
      [] name \in {"Expires", "expires"} -> "expires"
      [] name \in {"Cache-Control", "cache-control"} -> "cache-control"
      [] name \in {"Vary", "vary"} -> "vary"
      [] name \in {"X-Other", "x-other"} -> "x-other"

NoHeaders == <<>>
Put(h, k, v) == [x \in DOMAIN h \cup {k} |-> IF x = k THEN v ELSE h[x]]
Del(h, k) == [x \in DOMAIN h \ {k} |-> h[x]]

setHeader(h, name, value, literal) ==
    LET key == Lower(name)
    IN  Put(h, IF literal THEN name ELSE key, value)

\* ------------------------------------------------------ dates
formatDateTime(dt) == "rfc1123:" \o ToString(dt)

getExpiration_ZeroIsFuture(now_, maxage) ==
    IF maxage >= 0 THEN now_ + maxage ELSE now_ - TenYears

getExpiration(now_, maxage) ==
    IF maxage > 0 THEN now_ + maxage ELSE now_ - TenYears

\* ------------------------------------------------------ header policies
\* etag and vary are strings or None; lastmodified is <<>> (None) or <<dt>>.
doNotCache_KeepLastModified(h, now_) ==
    setHeader(setHeader(h, "Expires",
                        formatDateTime(getExpiration(now_, 0)), FALSE),
              "Cache-Control", "max-age=0, must-revalidate, private", FALSE)

doNotCache(h, now_) ==
    LET h1 == IF "last-modified" \in DOMAIN h
              THEN Del(h, "last-modified") ELSE h
        h2 == setHeader(h1, "Expires",
                        formatDateTime(getExpiration(now_, 0)), FALSE)
    IN  setHeader(h2, "Cache-Control",
                  "max-age=0, must-revalidate, private", FALSE)

cacheInBrowser_ExpiresNow(h, now_, etag, lastmodified) ==
    LET h1 == IF etag # None THEN setHeader(h, "ETag", etag, FALSE) ELSE h
        h2 == IF lastmodified # <<>>
              THEN setHeader(h1, "Last-Modified",
                             formatDateTime(lastmodified[1]), FALSE)
              ELSE h1
        h3 == setHeader(h2, "Expires", formatDateTime(now_), FALSE)
    IN  setHeader(h3, "Cache-Control",
                  "max-age=0, must-revalidate, private", FALSE)

cacheInBrowser(h, now_, etag, lastmodified) ==
    LET h1 == IF etag # None THEN setHeader(h, "ETag", etag, FALSE) ELSE h
        h2 == IF lastmodified # <<>>
              THEN setHeader(h1, "Last-Modified",
                             formatDateTime(lastmodified[1]), FALSE)
              ELSE h1
        h3 == setHeader(h2, "Expires",
                        formatDateTime(getExpiration(now_, 0)), FALSE)
    IN  setHeader(h3, "Cache-Control",
                  "max-age=0, must-revalidate, private", FALSE)

cacheInProxy(h, now_, smaxage, lastmodified, etag, vary) ==
    LET h1 == IF lastmodified # <<>>
              THEN setHeader(h, "Last-Modified",
                             formatDateTime(lastmodified[1]), FALSE)
              ELSE h
        h2 == IF etag # None THEN setHeader(h1, "ETag", etag, FALSE) ELSE h1
        h3 == setHeader(h2, "Expires",
                        formatDateTime(getExpiration(now_, 0)), FALSE)
        h4 == setHeader(h3, "Cache-Control",
                        "max-age=0, s-maxage=" \o ToString(smaxage)
                            \o ", must-revalidate", FALSE)
    IN  IF vary # None THEN setHeader(h4, "Vary", vary, FALSE) ELSE h4

cacheEverywhere_PrivateNoVary(h, now_, maxage, lastmodified, etag, vary) ==
    cacheInBrowser(h, now_, etag, lastmodified)

cacheEverywhere(h, now_, maxage, lastmodified, etag, vary) ==
    LET h1 == IF lastmodified # <<>>
              THEN setHeader(h, "Last-Modified",
                             formatDateTime(lastmodified[1]), FALSE)
              ELSE h
        h2 == IF etag # None THEN setHeader(h1, "ETag", etag, FALSE) ELSE h1
        h3 == setHeader(h2, "Expires",
                        formatDateTime(getExpiration(now_, 0)), FALSE)
        h4 == setHeader(h3, "Cache-Control",
                        "max-age=" \o ToString(maxage)
                            \o ", must-revalidate, public", FALSE)
    IN  IF vary # None THEN setHeader(h4, "Vary", vary, FALSE) ELSE h4

\* ------------------------------------------------------- RAM cache
\* The ICacheChooser utility hands out one store per global key; a store
\* is a dict from cache keys to (status, headers, body) triples.
GlobalKeys == {PAGE_CACHE_KEY, GLOBAL_KEY}
AnnotationKeys == {PAGE_CACHE_ANNOTATION_KEY, "custom.annotation.key"}
Get(d, k) == IF k \in DOMAIN d THEN d[k] ELSE NoEntry
AnnotationsGet(ann, k) == IF k \in DOMAIN ann THEN ann[k] ELSE None
\* Python's "not key" for a key that is a string or None.
Falsy(key) == key = None \/ key = ""

\* getRAMCache: <<>> is None, <<store>> the store the chooser returns.
getRAMCache_AlwaysStore(chooserRegistered, stores, globalKey) ==
    <<stores[globalKey]>>

getRAMCache(chooserRegistered, stores, globalKey) ==
    IF ~chooserRegistered THEN <<>> ELSE <<stores[globalKey]>>

\* cacheInRAM: the request's annotations and IRAMCached marker afterwards.
cacheInRAM_NoTableCheck(annotatable_, ann, mark, pub, url, key, annotationsKey) ==
    LET k == IF key = None THEN getRAMCacheKey(pub, url) ELSE key
    IN  [annotations |-> Put(ann, annotationsKey, k), marked |-> TRUE]

cacheInRAM_KeepsFirstKey(annotatable_, ann, mark, pub, url, key, annotationsKey) ==
    IF ~annotatable_
    THEN [annotations |-> ann, marked |-> mark]
    ELSE LET k == IF key = None THEN getRAMCacheKey(pub, url) ELSE key
         IN  [annotations |-> IF annotationsKey \in DOMAIN ann THEN ann
                              ELSE Put(ann, annotationsKey, k),
              marked |-> TRUE]

cacheInRAM(annotatable_, ann, mark, pub, url, key, annotationsKey) ==
    IF ~annotatable_
    THEN [annotations |-> ann, marked |-> mark]
    ELSE LET k == IF key = None THEN getRAMCacheKey(pub, url) ELSE key
         IN  [annotations |-> Put(ann, annotationsKey, k), marked |-> TRUE]

\* fetchFromRAMCache: the cached triple, or NoEntry for None.
fetchFromRAMCache_LookupAnyKey(chooserRegistered, stores, pub, url, key, globalKey) ==
    LET cache == getRAMCache(chooserRegistered, stores, globalKey)
    IN  IF cache = <<>> THEN NoEntry
        ELSE LET k == IF key = None THEN getRAMCacheKey(pub, url) ELSE key
             IN  Get(cache[1], k)

fetchFromRAMCache(chooserRegistered, stores, pub, url, key, globalKey) ==
    LET cache == getRAMCache(chooserRegistered, stores, globalKey)
    IN  IF cache = <<>> THEN NoEntry
        ELSE LET k == IF key = None THEN getRAMCacheKey(pub, url) ELSE key
             IN  IF Falsy(k) THEN NoEntry ELSE Get(cache[1], k)

\* cachedResponse: the status and headers of the response afterwards, the
\* setHeader calls made (name, literal) and the body returned.
cachedResponse(hdrs, cached) ==
    LET entryHeaders == cached[2]
        RECURSIVE Copy(_, _)
        Copy(h, names) ==
            IF names = {} THEN h
            ELSE LET k == CHOOSE x \in names : TRUE
                 IN  Copy(setHeader(h, k, entryHeaders[k], k = "ETag"),
                          names \ {k})
    IN  [status |-> cached[1],
         headers |-> Copy(hdrs, DOMAIN entryHeaders),
         calls |-> {<<k, k = "ETag">> : k \in DOMAIN entryHeaders},
         body |-> cached[3]]

\* storeResponseInRAMCache(published, request, response, result, ...): the
\* stores afterwards.  The key comes from the annotations of request, the
\* status from response, the headers from request.response.
storeResponseInRAMCache_EveryStore(chooserRegistered, stores, annotatable_, ann, responseStatus, requestHeaders, result_, globalKey, annotationsKey) ==
    LET key == AnnotationsGet(ann, annotationsKey)
    IN  IF ~annotatable_ \/ Falsy(key) \/ ~chooserRegistered THEN stores
        ELSE [g \in DOMAIN stores |->
                Put(stores[g], key, <<responseStatus, requestHeaders,
                                      result_>>)]

storeResponseInRAMCache_NoHeaders(chooserRegistered, stores, annotatable_, ann, responseStatus, requestHeaders, result_, globalKey, annotationsKey) ==
    LET key == AnnotationsGet(ann, annotationsKey)
    IN  IF ~annotatable_ \/ Falsy(key) \/ ~chooserRegistered THEN stores
        ELSE [stores EXCEPT ![globalKey] =
                Put(@, key, <<responseStatus, NoHeaders, result_>>)]

storeResponseInRAMCache(chooserRegistered, stores, annotatable_, ann, responseStatus, requestHeaders, result_, globalKey, annotationsKey) ==
    IF ~annotatable_ THEN stores
    ELSE LET key == AnnotationsGet(ann, annotationsKey)
         IN  IF Falsy(key) THEN stores
             ELSE LET cache == getRAMCache(chooserRegistered, stores,
                                           globalKey)
                  IN  IF cache = <<>> THEN stores
                      ELSE [stores EXCEPT ![globalKey] =
                              Put(@, key, <<responseStatus, requestHeaders,
                                            result_>>)]

\* --------------------------------------------- bodies and encodings
\* str.encode(encoding) for the two encodings and the code points used.
Encodings == {"utf-8", "latin-1"}
EncodeChar(cp, encoding) ==
    IF encoding = "utf-8" /\ cp >= 128
    THEN <<192 + (cp \div 64), 128 + (cp % 64)>>
    ELSE <<cp>>

RECURSIVE Encode(_, _)
Encode(text, encoding) ==
    IF text = <<>> THEN <<>>
    ELSE EncodeChar(Head(text), encoding) \o Encode(Tail(text), encoding)

\* b"".join(chunks)
RECURSIVE JoinBytes(_)
JoinBytes(chunks) ==
    IF chunks = <<>> THEN <<>> ELSE Head(chunks) \o JoinBytes(Tail(chunks))

VARIABLES
    published,     \* per request: the published object's __parent__ chain
    actualUrl,     \* per request: request['ACTUAL_URL']
    registry,      \* the named IETagValue adapters registered
    etagKeys,      \* getETag's keys argument
    etagExtra,     \* getETag's extraTokens argument
    headers,       \* per request: response.headers
    now,           \* the clock datetime.datetime.now() reads
    ret,           \* what the last helper call returned
    chooser,       \* whether an ICacheChooser utility is registered
    ram,           \* the store the chooser returns for each global key
    annotatable,   \* per request: IAnnotations(request, None) is not None
    annotations,   \* per request: the annotations dict
    marked,        \* per request: the request provides IRAMCached
    status,        \* per request: response.getStatus()
    body,          \* per request: the body handed to the transform chain
    pc,            \* per request: "handler", "rendered" or "done"
    result,        \* per request: how the Store transform ended
    attempts       \* the calls of storeResponseInRAMCache Store has made

pipeVars == <<chooser, ram, annotatable, annotations, marked, status, body,
              pc, result, attempts>>

vars == <<published, actualUrl, registry, etagKeys, etagExtra, headers,
          now, ret, pipeVars>>

\* ----------------------------------------------------- Store (ramcache.py)
Statuses == {200, 404}
NoBody == [shape |-> "none", value |-> <<>>, encoding |-> "", consumed |-> FALSE]
Bodies ==
    {[shape |-> "unicode", value |-> <<104, 233>>, encoding |-> "utf-8",
      consumed |-> FALSE]}
    \cup {[shape |-> "bytes", value |-> <<104, 105>>, encoding |-> "utf-8",
           consumed |-> FALSE]}
    \cup {[shape |-> "iterable",
           value |-> << <<97, 98>>, <<99, 100>>, <<101, 102>> >>,
           encoding |-> "utf-8", consumed |-> FALSE]}

NoStores == [g \in GlobalKeys |-> <<>>]
Pending == [kind |-> "pending", val |-> <<>>, exc |-> ""]
ReturnNone == [kind |-> "None", val |-> <<>>, exc |-> ""]
ReturnBytes(b) == [kind |-> "bytes", val |-> b, exc |-> ""]
Raise(e) == [kind |-> "raised", val |-> <<>>, exc |-> e]

ResponseObj(r) == [kind |-> "response", status |-> status[r],
                   headers |-> headers[r]]
RequestObj(r) == [kind |-> "request", annotatable |-> annotatable[r],
                  annotations |-> annotations[r], response |-> ResponseObj(r)]
PublishedObj(r) == [kind |-> "published", chain |-> published[r]]

\* The parameters of storeResponseInRAMCache without a default:
\* published, request, response, result.
StoreRequiredParams == <<"published", "request", "response", "result">>

\* A call storeResponseInRAMCache(*args) with positional arguments only:
\* Python binds them in order and raises TypeError when a parameter without
\* a default is left unbound; globalKey and annotationsKey take defaults.
CallStore(args) ==
    IF Len(args) < Len(StoreRequiredParams)
    THEN [exc |-> "TypeError", stores |-> ram]
    ELSE LET request == args[2]
             response == args[3]
             result_ == args[4]
         IN  [exc |-> "",
              stores |-> storeResponseInRAMCache(
                            chooser, ram, request.annotatable,
                            request.annotations, response.status,
                            request.response.headers, result_,
                            PAGE_CACHE_KEY, PAGE_CACHE_ANNOTATION_KEY)]

responseIsSuccess_AtLeast200(r) == status[r] >= 200

responseIsSuccess(r) == status[r] = 200

\* Store passes three arguments: self.request, self.request.response and
\* the body.
StoreAndReturn(r, data, returned) ==
    LET c == CallStore(<<RequestObj(r), ResponseObj(r), data>>)
    IN  [called |-> TRUE, stores |-> c.stores,
         result |-> IF c.exc # "" THEN Raise(c.exc) ELSE returned]

Skipped == [called |-> FALSE, stores |-> ram, result |-> ReturnNone]

transformUnicode(r, text, encoding) ==
    IF responseIsSuccess(r) /\ marked[r]
    THEN StoreAndReturn(r, Encode(text, encoding), ReturnNone)
    ELSE Skipped

transformBytes(r, data) ==
    IF responseIsSuccess(r) /\ marked[r]
    THEN StoreAndReturn(r, data, ReturnNone)
    ELSE Skipped

transformIterable_AlwaysJoins(r, chunks) ==
    IF responseIsSuccess(r) /\ marked[r]
    THEN StoreAndReturn(r, JoinBytes(chunks), ReturnBytes(JoinBytes(chunks)))
    ELSE [called |-> FALSE, stores |-> ram,
          result |-> ReturnBytes(JoinBytes(chunks))]

transformIterable(r, chunks) ==
    IF responseIsSuccess(r) /\ marked[r]
    THEN StoreAndReturn(r, JoinBytes(chunks), ReturnBytes(JoinBytes(chunks)))
    ELSE Skipped


NoCall == [op |-> "none", req |-> 0, val |-> None]

\* The state of the requests before anything has run.
PipeIdle ==
    /\ chooser = TRUE
    /\ ram = NoStores
    /\ annotatable = [r \in Requests |-> TRUE]
    /\ annotations = [r \in Requests |-> <<>>]
    /\ marked = [r \in Requests |-> FALSE]
    /\ status = [r \in Requests |-> 200]
    /\ body = [r \in Requests |-> NoBody]
    /\ pc = [r \in Requests |-> "handler"]
    /\ result = [r \in Requests |-> Pending]
    /\ attempts = {}

\* ------------------------------------------- specification: key derivation
InitKey ==
    /\ \E c \in Chains : published = [r \in Requests |-> c]
    /\ \E u \in Urls : actualUrl = [r \in Requests |-> u]
    /\ headers = [r \in Requests |-> NoHeaders]
    /\ now = 0
    /\ registry = <<>>
    /\ etagKeys = <<>>
    /\ etagExtra = <<>>
    /\ ret = NoCall
    /\ PipeIdle

DeriveKey(r) ==
    /\ ret' = [op |-> "getRAMCacheKey", req |-> r,
               val |-> getRAMCacheKey(published[r], actualUrl[r])]
    /\ UNCHANGED <<published, actualUrl, registry, etagKeys, etagExtra,
                   headers, now, pipeVars>>

NextKey == \E r \in Requests : DeriveKey(r)

SpecKey == InitKey /\ [][NextKey]_vars

\* ------------------------------------------------ specification: ETag
SeqsUpTo(S, n) == UNION {[1..k -> S] : k \in 0..n}

InitETag ==
    /\ published = [r \in Requests |-> <<>>]
    /\ actualUrl = [r \in Requests |-> "http://host/site/b"]
    /\ headers = [r \in Requests |-> NoHeaders]
    /\ now = 0
    /\ registry \in Registries
    /\ etagKeys \in SeqsUpTo(SourceNames, MaxKeys)
    /\ etagExtra \in SeqsUpTo(Tokens, MaxExtra)
    /\ ret = NoCall
    /\ PipeIdle

ComputeETag ==
    /\ ret' = [op |-> "getETag", req |-> 0,
               val |-> getETag(registry, etagKeys, etagExtra),
               warned |-> Unregistered(registry, etagKeys)]
    /\ UNCHANGED <<published, actualUrl, registry, etagKeys, etagExtra,
                   headers, now, pipeVars>>

NextETag == ComputeETag

SpecETag == InitETag /\ [][NextETag]_vars

\* ------------------------------------- specification: header policies
\* The policies act on one response; the first request's is taken.
ETagArgs == {None, "|a;b"}
DateArgs == {<<>>, <<0>>}
VaryArgs == {None, "Accept-Language"}
MaxAges == {0, 3600}
PriorNames == {"Last-Modified", "LAST-MODIFIED", "last-modified", "ETag",
               "Vary", "X-Other"}

InitHeaders ==
    /\ published = [r \in Requests |-> <<>>]
    /\ actualUrl = [r \in Requests |-> "http://host/site/b"]
    /\ registry = <<>>
    /\ etagKeys = <<>>
    /\ etagExtra = <<>>
    /\ headers = [r \in Requests |-> NoHeaders]
    /\ now = 0
    /\ ret = NoCall
    /\ PipeIdle

HeaderFrame ==
    UNCHANGED <<published, actualUrl, registry, etagKeys, etagExtra, pipeVars>>

\* ret keeps, with the call and its arguments, the headers it found (pre).
Called(op, r) ==
    ret' = [op |-> op, req |-> r, val |-> None,
            pre |-> IF r \in Requests THEN headers[r] ELSE NoHeaders]

\* Code outside the policies (a view, the publisher) sets a header.
SetHeader(r) ==
    \E name \in PriorNames :
        /\ headers' = [headers EXCEPT ![r] = setHeader(@, name, "old", FALSE)]
        /\ Called("setHeader", r)
        /\ UNCHANGED now
        /\ HeaderFrame

Tick ==
    /\ now < MaxTime
    /\ now' = now + 1
    /\ Called("tick", 0)
    /\ UNCHANGED headers
    /\ HeaderFrame

DoNotCache(r) ==
    /\ headers' = [headers EXCEPT ![r] = doNotCache(@, now)]
    /\ Called("doNotCache", r)
    /\ UNCHANGED now
    /\ HeaderFrame

CacheInBrowser(r) ==
    \E etag \in ETagArgs, lastmodified \in DateArgs :
        /\ headers' = [headers EXCEPT
                         ![r] = cacheInBrowser(@, now, etag, lastmodified)]
        /\ ret' = [op |-> "cacheInBrowser", req |-> r, val |-> None,
                   pre |-> headers[r], etag |-> etag, lastmodified |-> lastmodified]
        /\ UNCHANGED now
        /\ HeaderFrame

CacheInProxy(r) ==
    \E smaxage \in MaxAges, etag \in ETagArgs, lastmodified \in DateArgs,
       vary \in VaryArgs :
        /\ headers' = [headers EXCEPT
                         ![r] = cacheInProxy(@, now, smaxage, lastmodified,
                                             etag, vary)]
        /\ ret' = [op |-> "cacheInProxy", req |-> r, val |-> None,
                   pre |-> headers[r], maxage |-> smaxage, etag |-> etag,
                   lastmodified |-> lastmodified, vary |-> vary]
        /\ UNCHANGED now
        /\ HeaderFrame

CacheEverywhere(r) ==
    \E maxage \in MaxAges, etag \in ETagArgs, lastmodified \in DateArgs,
       vary \in VaryArgs :
        /\ headers' = [headers EXCEPT
                         ![r] = cacheEverywhere(@, now, maxage, lastmodified,
                                                etag, vary)]
        /\ ret' = [op |-> "cacheEverywhere", req |-> r, val |-> None,
                   pre |-> headers[r], maxage |-> maxage, etag |-> etag,
                   lastmodified |-> lastmodified, vary |-> vary]
        /\ UNCHANGED now
        /\ HeaderFrame

\* getExpiration(maxage) called on its own.
ExpirationArgs == {-3600, -1, 0, 1, 3600}

GetExpiration ==
    \E maxage \in ExpirationArgs :
        /\ ret' = [op |-> "getExpiration", req |-> 0, maxage |-> maxage,
                   val |-> getExpiration(now, maxage)]
        /\ UNCHANGED <<headers, now>>
        /\ HeaderFrame

NextHeaders ==
    \/ GetExpiration
    \/ SetHeader(1)
    \/ Tick
    \/ DoNotCache(1)
    \/ CacheInBrowser(1)
    \/ CacheInProxy(1)
    \/ CacheEverywhere(1)

SpecHeaders == InitHeaders /\ [][NextHeaders]_vars

\* ------------------------------------ specification: request pipeline
\* Every request runs its handler (which may call cacheInRAM), is rendered,
\* and passes once through the Store transform; fetchFromRAMCache may be
\* called at any time.  All requests are for the same page: one without a
\* parent, one whose parent has a path, one whose parent's
\* absolute_url_path() is the empty string.
Pages == {<<>>, <<[traversable |-> TRUE, path |-> "/site/a"]>>,
          <<[traversable |-> TRUE, path |-> ""]>>}
KeyArgs == {None, "", "/k1"}
\* The (key, annotationsKey) arguments cacheInRAM is called with.
MarkArgs == {<<None, PAGE_CACHE_ANNOTATION_KEY>>,
             <<"", PAGE_CACHE_ANNOTATION_KEY>>,
             <<"/k1", PAGE_CACHE_ANNOTATION_KEY>>,
             <<"/k1", "custom.annotation.key">>}

Init ==
    /\ \E c \in Pages : published = [r \in Requests |-> c]
    /\ actualUrl = [r \in Requests |-> "http://host/site/a/view"]
    /\ registry = <<>>
    /\ etagKeys = <<>>
    /\ etagExtra = <<>>
    /\ headers = [r \in Requests |-> NoHeaders]
    /\ now = 0
    /\ ret = NoCall
    /\ chooser \in BOOLEAN
    /\ ram = NoStores
    /\ annotatable \in [Requests -> BOOLEAN]
    /\ annotations = [r \in Requests |-> <<>>]
    /\ marked = [r \in Requests |-> FALSE]
    /\ status = [r \in Requests |-> 200]
    /\ body = [r \in Requests |-> NoBody]
    /\ pc = [r \in Requests |-> "handler"]
    /\ result = [r \in Requests |-> Pending]
    /\ attempts = {}

Fixed == UNCHANGED <<published, actualUrl, registry, etagKeys, etagExtra,
                     now, chooser, annotatable>>

CacheInRAM(r) ==
    \E a \in MarkArgs :
        LET m == cacheInRAM(annotatable[r], annotations[r], marked[r],
                            published[r], actualUrl[r], a[1], a[2])
        IN  /\ pc[r] = "handler"
            /\ annotations' = [annotations EXCEPT ![r] = m.annotations]
            /\ marked' = [marked EXCEPT ![r] = m.marked]
            /\ ret' = [op |-> "cacheInRAM", req |-> r, key |-> a[1],
                       annotationsKey |-> a[2], val |-> None]
            /\ UNCHANGED <<headers, ram, status, body, pc, result,
                           attempts>>
            /\ Fixed

Render(r) ==
    \E st \in Statuses, b \in Bodies :
        /\ pc[r] = "handler"
        /\ pc' = [pc EXCEPT ![r] = "rendered"]
        /\ status' = [status EXCEPT ![r] = st]
        /\ body' = [body EXCEPT ![r] = b]
        /\ headers' = [headers EXCEPT
                         ![r] = setHeader(@, "X-Other", "old", FALSE)]
        /\ UNCHANGED <<ret, ram, annotations, marked, result, attempts>>
        /\ Fixed

\* What a run t of the Store transform leaves behind.
Transformed(r, t, consumed) ==
    /\ pc' = [pc EXCEPT ![r] = "done"]
    /\ ram' = t.stores
    /\ result' = [result EXCEPT ![r] = t.result]
    /\ attempts' = IF t.called
                   THEN attempts \cup {[req |-> r, status |-> status[r],
                                        marked |-> marked[r]]}
                   ELSE attempts
    /\ body' = [body EXCEPT ![r].consumed = consumed]
    /\ UNCHANGED <<headers, ret, annotations, marked, status>>
    /\ Fixed

TransformUnicode(r) ==
    /\ pc[r] = "rendered"
    /\ body[r].shape = "unicode"
    /\ Transformed(r, transformUnicode(r, body[r].value, body[r].encoding),
                   FALSE)

TransformBytes(r) ==
    /\ pc[r] = "rendered"
    /\ body[r].shape = "bytes"
    /\ Transformed(r, transformBytes(r, body[r].value), FALSE)

\* b"".join() drains the chunk sequence when the stage proceeds.
TransformIterable(r) ==
    /\ pc[r] = "rendered"
    /\ body[r].shape = "iterable"
    /\ LET t == transformIterable(r, body[r].value)
       IN  Transformed(r, t, t.called)

Fetch(r) ==
    \E key \in KeyArgs, globalKey \in GlobalKeys :
        /\ ret' = [op |-> "fetchFromRAMCache", req |-> r, key |-> key,
                   globalKey |-> globalKey,
                   val |-> fetchFromRAMCache(chooser, ram, published[r],
                                             actualUrl[r], key, globalKey)]
        /\ UNCHANGED <<headers, ram, annotations, marked, status, body, pc,
                       result, attempts>>
        /\ Fixed

Next ==
    \E r \in Requests :
        \/ CacheInRAM(r)
        \/ Render(r)
        \/ TransformUnicode(r)
        \/ TransformBytes(r)
        \/ TransformIterable(r)
        \/ Fetch(r)

Spec == Init /\ [][Next]_vars

\* ------------------------------------------ specification: fetch
\* fetchFromRAMCache over the stores it may find.  The store the chooser
\* hands out is shared with every other user of the utility, so it may
\* hold entries under any key, the empty one included.
StoredKeys == {"", "/k1", "/site/a"}
EntryUnder(k) == <<200, Put(NoHeaders, "x-other", k), <<104, 105>> >>
StoreHolding(keys) == [k \in keys |-> EntryUnder(k)]

InitFetch ==
    /\ \E c \in Pages : published = [r \in Requests |-> c]
    /\ actualUrl = [r \in Requests |-> "http://host/site/a/view"]
    /\ registry = <<>>
    /\ etagKeys = <<>>
    /\ etagExtra = <<>>
    /\ headers = [r \in Requests |-> NoHeaders]
    /\ now = 0
    /\ ret = NoCall
    /\ chooser \in BOOLEAN
    /\ \E keys \in SUBSET StoredKeys, other \in {{}, {"/k1"}} :
          ram = [g \in GlobalKeys |->
                   IF g = PAGE_CACHE_KEY THEN StoreHolding(keys)
                   ELSE StoreHolding(other)]
    /\ annotatable = [r \in Requests |-> TRUE]
    /\ annotations = [r \in Requests |-> <<>>]
    /\ marked = [r \in Requests |-> FALSE]
    /\ status = [r \in Requests |-> 200]
    /\ body = [r \in Requests |-> NoBody]
    /\ pc = [r \in Requests |-> "handler"]
    /\ result = [r \in Requests |-> Pending]
    /\ attempts = {}

NextFetch == \E r \in Requests : Fetch(r)

SpecFetch == InitFetch /\ [][NextFetch]_vars

\* --------------------------------- specification: the helpers called
\* directly, as an interceptor and a custom transform call them: on one
\* request, in any order.
InitAPI == Init

ApiFixed == UNCHANGED <<published, actualUrl, registry, etagKeys, etagExtra,
                        now, chooser, annotatable, body, pc, result,
                        attempts>>

Resolve ==
    \E globalKey \in GlobalKeys :
        /\ ret' = [op |-> "getRAMCache", req |-> 0, globalKey |-> globalKey,
                   val |-> getRAMCache(chooser, ram, globalKey)]
        /\ UNCHANGED <<headers, ram, annotations, marked, status>>
        /\ ApiFixed

CallCacheInRAM(r) ==
    \E a \in MarkArgs :
        LET m == cacheInRAM(annotatable[r], annotations[r], marked[r],
                            published[r], actualUrl[r], a[1], a[2])
        IN  /\ annotations' = [annotations EXCEPT ![r] = m.annotations]
            /\ marked' = [marked EXCEPT ![r] = m.marked]
            /\ ret' = [op |-> "cacheInRAM", req |-> r, key |-> a[1],
                       annotationsKey |-> a[2], val |-> None]
            /\ UNCHANGED <<headers, ram, status>>
            /\ ApiFixed

\* The publisher sets the response status.
SetStatus(r) ==
    \E st \in Statuses :
        /\ status' = [status EXCEPT ![r] = st]
        /\ ret' = [op |-> "setStatus", req |-> r, val |-> None]
        /\ UNCHANGED <<headers, ram, annotations, marked>>
        /\ ApiFixed

\* A header policy sets the validators of the response.
SetValidators(r) ==
    \E etag \in ETagArgs, lastmodified \in DateArgs :
        /\ headers' = [headers EXCEPT
                         ![r] = cacheInBrowser(@, now, etag, lastmodified)]
        /\ ret' = [op |-> "cacheInBrowser", req |-> r, val |-> None]
        /\ UNCHANGED <<ram, annotations, marked, status>>
        /\ ApiFixed

\* A header policy withdraws the response from caching, deleting its
\* Last-Modified header.
Expire(r) ==
    /\ headers' = [headers EXCEPT ![r] = doNotCache(@, now)]
    /\ ret' = [op |-> "doNotCache", req |-> r, val |-> None,
               pre |-> headers[r]]
    /\ UNCHANGED <<ram, annotations, marked, status>>
    /\ ApiFixed

\* storeResponseInRAMCache(published, request, response, result)
StoreDirect(r) ==
    LET c == CallStore(<<PublishedObj(r), RequestObj(r), ResponseObj(r),
                         <<104, 105>> >>)
    IN  /\ ram' = c.stores
        /\ ret' = [op |-> "storeResponseInRAMCache", req |-> r,
                   val |-> None, exc |-> c.exc]
        /\ UNCHANGED <<headers, annotations, marked, status>>
        /\ ApiFixed

\* cachedResponse(published, request, response, cached) with the triple
\* fetchFromRAMCache has just returned.
Replay(r) ==
    /\ ret.op = "fetchFromRAMCache"
    /\ ret.val # NoEntry
    /\ LET c == cachedResponse(headers[r], ret.val)
       IN  /\ status' = [status EXCEPT ![r] = c.status]
           /\ headers' = [headers EXCEPT ![r] = c.headers]
           /\ ret' = [op |-> "cachedResponse", req |-> r, val |-> c.body,
                      cached |-> ret.val, calls |-> c.calls]
    /\ UNCHANGED <<ram, annotations, marked>>
    /\ ApiFixed

NextAPI ==
    \/ Resolve
    \/ CallCacheInRAM(1)
    \/ SetStatus(1)
    \/ SetValidators(1)
    \/ Expire(1)
    \/ StoreDirect(1)
    \/ Fetch(1)
    \/ Replay(1)

SpecAPI == InitAPI /\ [][NextAPI]_vars

\* ================================================== properties
\* The key the Store transform stores under: the request's annotation
\* under the default annotation key.
CaptureKey(r) == AnnotationsGet(annotations[r], PAGE_CACHE_ANNOTATION_KEY)

\* The bytes of a body: the text encoded, the bytes, the chunks in order.
BodyBytes(b) ==
    CASE b.shape = "unicode" -> Encode(b.value, b.encoding)
      [] b.shape = "bytes" -> b.value
      [] b.shape = "iterable" -> JoinBytes(b.value)

\* Request r passes through the Store transform in this step.
CaptureStep(r) == pc[r] = "rendered" /\ pc'[r] = "done"

\* ---- C1 ----
\* C1: every entry in a store has status 200 and lies under the annotated
\* key of a request that carries the marker and has passed the stage; and
\* every call of storeResponseInRAMCache the stage makes is made with
\* status 200 and the marker set, so that a stage run at status 404 (or
\* any other status) never reaches the store, marker or not.
C1_OnlyOn200WithMarker ==
    /\ \A g \in GlobalKeys : \A k \in DOMAIN ram[g] :
          /\ ram[g][k][1] = 200
          /\ \E r \in Requests : /\ pc[r] = "done"
                                 /\ marked[r]
                                 /\ CaptureKey(r) = k
    /\ \A a \in attempts : a.status = 200 /\ a.marked
    /\ \A r \in Requests :
          (pc[r] = "done" /\ (status[r] # 200 \/ ~marked[r])) =>
              /\ \A a \in attempts : a.req # r
              /\ result[r] = ReturnNone

\* A request marked with the key /k1 has passed the stage at status 404.
C1_Witness ==
    \E r \in Requests :
        /\ pc[r] = "done" /\ status[r] = 404
        /\ marked[r] /\ CaptureKey(r) = "/k1"
        /\ chooser
        /\ ram = NoStores

\* ---- C2 ----
\* C2: when a request marked with a non-empty key, with status 200 and a
\* chooser registered, passes the stage with body b (text, bytes or
\* chunks), a fetch with that key (or with no key, when the key is the
\* derived one) then returns (200, the response headers, the bytes of b).
C2_RoundTrip ==
    [][\A r \in Requests :
          (/\ CaptureStep(r)
           /\ status[r] = 200 /\ marked[r]
           /\ chooser /\ annotatable[r]
           /\ ~Falsy(CaptureKey(r))) =>
              LET triple == <<200, headers[r], BodyBytes(body[r])>>
              IN  /\ fetchFromRAMCache(chooser', ram', published[r],
                                       actualUrl[r], CaptureKey(r),
                                       PAGE_CACHE_KEY) = triple
                  /\ CaptureKey(r) = getRAMCacheKey(published[r],
                                                    actualUrl[r]) =>
                        fetchFromRAMCache(chooser', ram', published[r],
                                          actualUrl[r], None,
                                          PAGE_CACHE_KEY) = triple
      ]_vars

\* ---- C3 ----
\* C3: when the stage proceeds on a chunk sequence it returns the chunks
\* joined in order and stores them as the entry's body ([ab, cd, ef] gives
\* abcdef); whenever it has consumed the chunks it returns them joined; on
\* text and bytes it always returns "no replacement".
C3_ChunkedCapture ==
    [][\A r \in Requests :
          CaptureStep(r) =>
              /\ (body[r].shape = "iterable" /\ status[r] = 200 /\ marked[r])
                    => /\ result'[r] = ReturnBytes(<<97, 98, 99, 100, 101, 102>>)
                       /\ (chooser /\ ~Falsy(CaptureKey(r))) =>
                             Get(ram'[PAGE_CACHE_KEY], CaptureKey(r))
                               = <<200, headers[r],
                                   <<97, 98, 99, 100, 101, 102>> >>
              /\ body'[r].consumed =>
                    result'[r] = ReturnBytes(JoinBytes(body[r].value))
              /\ body[r].shape \in {"unicode", "bytes"} =>
                    result'[r] = ReturnNone
      ]_vars

\* ---- C5 ----
\* C5: the stage never ends in an error, whatever the status, the marker,
\* the annotations, the chooser and the shape of the body.
C5_StageNeverRaises ==
    \A r \in Requests : result[r].kind # "raised"

\* ---- C4 ----
\* C4: with no chooser registered, resolve returns None, fetch returns
\* None, and store raises nothing and changes nothing.
C4_NoChooserNoOp ==
    [][~chooser =>
          /\ ret'.op = "getRAMCache" => ret'.val = <<>>
          /\ ret'.op = "fetchFromRAMCache" => ret'.val = NoEntry
          /\ ret'.op = "storeResponseInRAMCache" =>
                /\ ret'.exc = ""
                /\ UNCHANGED <<ram, annotations, marked, status, headers,
                               body, pc, result, attempts>>
      ]_vars

\* store has run without a chooser on a marked request with status 200.
C4_Witness ==
    /\ ~chooser
    /\ ret.op = "storeResponseInRAMCache"
    /\ marked[ret.req] /\ CaptureKey(ret.req) = "/k1"
    /\ status[ret.req] = 200
    /\ ram = NoStores

\* ---- C8 ----
\* C8: serveFromCache sets the status of the entry, inserts every header
\* of the entry, the ETag header literally and every other header
\* normally, and returns the entry's body; for every entry that store
\* produces.
C8_ReplayLiteralETag ==
    ret.op = "cachedResponse" =>
        LET entry == ret.cached
            h == headers[ret.req]
        IN  /\ status[ret.req] = entry[1]
            /\ ret.val = entry[3]
            /\ \A k \in DOMAIN entry[2] :
                  /\ \E n \in DOMAIN h : /\ Lower(n) = Lower(k)
                                         /\ h[n] = entry[2][k]
                  /\ <<k, Lower(k) = "etag">> \in ret.calls
                  /\ <<k, Lower(k) # "etag">> \notin ret.calls

\* ---- C6 ----
\* C6: deriveCacheKey returns the path of the nearest traversable
\* ancestor whenever any ancestor of the chain is traversable, and the raw
\* actual URL only when none is (or there is no parent).
C6_NearestTraversableAncestor ==
    ret.op = "getRAMCacheKey" =>
        LET pub == published[ret.req]
            trav == {i \in DOMAIN pub : pub[i].traversable}
        IN  /\ trav # {} =>
                \E i \in trav : /\ \A j \in trav : i <= j
                                /\ ret.val = pub[i].path
            /\ trav = {} => ret.val = actualUrl[ret.req]

\* C6 amended: deriveCacheKey looks at the immediate parent only.  It
\* returns the parent's path when the parent is traversable, and the raw
\* actual URL in every other case: no parent, or a parent that is not
\* traversable, whatever the more distant ancestors are.
C6_ImmediateParentOnly ==
    ret.op = "getRAMCacheKey" =>
        LET pub == published[ret.req]
        IN  /\ (pub # <<>> /\ pub[1].traversable) => ret.val = pub[1].path
            /\ (pub = <<>> \/ ~pub[1].traversable) =>
                   ret.val = actualUrl[ret.req]

\* A chain whose parent is not traversable and whose grandparent is: the
\* key is the URL.
C6_Witness ==
    /\ ret.op = "getRAMCacheKey"
    /\ Len(published[ret.req]) = 2
    /\ ~published[ret.req][1].traversable
    /\ published[ret.req][2].traversable
    /\ ret.val = actualUrl[ret.req]

\* ---- C7 ----
\* The tokens of an ETag: the results of the registered sources that
\* are not None, in the order of the names, then the extra tokens.
C7_Tokens ==
    LET named == SelectSeq(etagKeys, LAMBDA k : k \in DOMAIN registry
                                                /\ registry[k] # <<>>)
    IN  [i \in 1..Len(named) |-> registry[named[i]][1]] \o etagExtra

RECURSIVE C7_Piped(_)
C7_Piped(tokens) ==
    IF tokens = <<>> THEN <<>>
    ELSE <<"|">>
         \o [i \in DOMAIN Head(tokens) |->
                IF Head(tokens)[i] = "," THEN ";" ELSE Head(tokens)[i]]
         \o C7_Piped(Tail(tokens))

\* C7: computeETag returns a string that starts with a pipe, holds no
\* comma, and is the tokens (sources in the order of the names, absent and
\* unregistered ones skipped, then the extra tokens) each behind a pipe with
\* its commas turned into semicolons; no tokens give "|", and no sources
\* with the extra tokens "a,b" and "c" give "|a;b|c".
C7_ETagFormat ==
    ret.op = "getETag" =>
        /\ Len(ret.val) >= 1 /\ ret.val[1] = "|"
        /\ \A i \in DOMAIN ret.val : ret.val[i] # ","
        /\ ret.val = (IF C7_Tokens = <<>> THEN <<"|">> ELSE C7_Piped(C7_Tokens))
        /\ (etagKeys = <<>> /\ etagExtra = <<>>) => ret.val = <<"|">>
        /\ (etagKeys = <<>> /\ etagExtra = << <<"a", ",", "b">>, <<"c">> >>)
               => ret.val = <<"|", "a", ";", "b", "|", "c">>

\* An unregistered name, a source returning None and a token with a comma
\* in one call.
C7_Witness ==
    /\ ret.op = "getETag"
    /\ etagKeys = <<"userid", "roles">>
    /\ "userid" \notin DOMAIN registry
    /\ "roles" \in DOMAIN registry /\ registry["roles"] = <<>>
    /\ etagExtra = << <<"a", ",", "b">>, <<"c">> >>
    /\ ret.val = <<"|", "a", ";", "b", "|", "c">>
    /\ ret.warned = <<"userid">>

\* ---- C9 ----
\* C9: after doNotCache the response has no Last-Modified header under any
\* letter case, Expires is now minus ten years, Cache-Control is
\* 'max-age=0, must-revalidate, private', and every other header is as
\* it was.
C9_DoNotCache ==
    ret.op = "doNotCache" =>
        LET h == headers[ret.req]
            own == {"last-modified", "expires", "cache-control"}
        IN  /\ \A k \in DOMAIN h : Lower(k) # "last-modified"
            /\ "expires" \in DOMAIN h
            /\ h["expires"] = "rfc1123:" \o ToString(now - 315360000)
            /\ "cache-control" \in DOMAIN h
            /\ h["cache-control"] = "max-age=0, must-revalidate, private"
            /\ \A k \in DOMAIN h \cup DOMAIN ret.pre :
                  Lower(k) \notin own =>
                      /\ k \in DOMAIN h /\ k \in DOMAIN ret.pre
                      /\ h[k] = ret.pre[k]

\* doNotCache found a Last-Modified header and another one.
C9_Witness ==
    /\ ret.op = "doNotCache"
    /\ "last-modified" \in DOMAIN ret.pre
    /\ "x-other" \in DOMAIN ret.pre
    /\ "last-modified" \notin DOMAIN headers[ret.req]
    /\ "x-other" \in DOMAIN headers[ret.req]

\* ---- C10 ----
\* C10: cacheEverywhere sets Cache-Control to
\* 'max-age=<maxAge>, must-revalidate, public', sets Vary, ETag and
\* Last-Modified to the argument when it is given, and leaves each of the
\* three as it was when it is not.
C10_CacheEverywhere ==
    ret.op = "cacheEverywhere" =>
        LET h == headers[ret.req]
            kept(k) == IF k \in DOMAIN ret.pre
                       THEN k \in DOMAIN h /\ h[k] = ret.pre[k]
                       ELSE k \notin DOMAIN h
        IN  /\ "cache-control" \in DOMAIN h
            /\ h["cache-control"] = "max-age=" \o ToString(ret.maxage)
                                        \o ", must-revalidate, public"
            /\ IF ret.vary # None
               THEN "vary" \in DOMAIN h /\ h["vary"] = ret.vary
               ELSE kept("vary")
            /\ IF ret.etag # None
               THEN "etag" \in DOMAIN h /\ h["etag"] = ret.etag
               ELSE kept("etag")
            /\ IF ret.lastmodified # <<>>
               THEN /\ "last-modified" \in DOMAIN h
                    /\ h["last-modified"]
                         = "rfc1123:" \o ToString(ret.lastmodified[1])
               ELSE kept("last-modified")

\* cacheEverywhere with a vary and a maxAge, over an older Vary, and without
\* an etag, on a response that carries one.
C10_Witness ==
    /\ ret.op = "cacheEverywhere"
    /\ ret.vary = "Accept-Language" /\ ret.maxage = 3600
    /\ ret.etag = None
    /\ "vary" \in DOMAIN ret.pre /\ ret.pre["vary"] = "old"
    /\ "etag" \in DOMAIN ret.pre
    /\ headers[ret.req]["vary"] = "Accept-Language"
    /\ headers[ret.req]["etag"] = "old"
    /\ headers[ret.req]["cache-control"] = "max-age=3600, must-revalidate, public"

\* ---- C11 ----
\* C11: getExpiration(maxAge) is now + maxAge seconds for every maxAge > 0
\* and now minus ten years (315360000 seconds) for every maxAge <= 0, zero
\* included; it lies strictly after now exactly when maxAge > 0.
C11_Expiration ==
    ret.op = "getExpiration" =>
        /\ ret.maxage > 0 => ret.val = now + ret.maxage
        /\ ret.maxage <= 0 => ret.val = now - 315360000
        /\ (ret.val > now) <=> (ret.maxage > 0)

\* getExpiration(0), called after the clock has moved.
C11_Witness ==
    /\ ret.op = "getExpiration"
    /\ ret.maxage = 0
    /\ now = 1
    /\ ret.val = 1 - 315360000

\* Request r is the subject of a cacheInRAM call in this step.
MarkStep(r) == ret'.op = "cacheInRAM" /\ ret'.req = r /\ pc' = pc

\* The key a cacheInRAM call with the argument key ends up with.
MarkKey(r, key) ==
    IF key = None THEN getRAMCacheKey(published[r], actualUrl[r]) ELSE key

\* ---- C12 ----
\* C12: cacheInRAM on a request without annotations changes nothing (no
\* annotation, no marker, nothing else), and when the stage later runs
\* for such a request it returns None and leaves the stores alone; on a
\* request with annotations it files the key given, or the derived key
\* when none is given, under annotationsKey, keeps the other annotations
\* and sets the marker.
C12_MarkNeedsAnnotations ==
    [][\A r \in Requests :
          /\ (MarkStep(r) /\ ~annotatable[r]) =>
                /\ annotations' = annotations /\ marked' = marked
                /\ annotations[r] = <<>> /\ ~marked[r]
                /\ UNCHANGED <<ram, headers, status, body, result, attempts>>
          /\ (CaptureStep(r) /\ ~annotatable[r]) =>
                /\ ram' = ram
                /\ result'[r] = ReturnNone
                /\ \A a \in attempts' : a.req # r
          /\ (MarkStep(r) /\ annotatable[r]) =>
                /\ marked'[r]
                /\ DOMAIN annotations'[r]
                      = DOMAIN annotations[r] \cup {ret'.annotationsKey}
                /\ annotations'[r][ret'.annotationsKey]
                      = MarkKey(r, ret'.key)
                /\ \A k \in DOMAIN annotations[r] \ {ret'.annotationsKey} :
                      annotations'[r][k] = annotations[r][k]
      ]_vars

\* cacheInRAM was called with the key /k1 on a request without
\* annotations, which then passed the stage at status 200 with a chooser
\* registered.
C12_Witness ==
    /\ ret.op = "cacheInRAM" /\ ret.key = "/k1"
    /\ ~annotatable[ret.req]
    /\ pc[ret.req] = "done" /\ status[ret.req] = 200
    /\ chooser
    /\ result[ret.req] = ReturnNone
    /\ ram = NoStores

\* ---- C13 ----
\* C13: fetchFromRAMCache returns None whenever the key it ends up with,
\* given or derived, is empty, also when the store holds an entry under
\* the empty key; with a store and a non-empty key it returns the store's
\* entry under that key, None when there is none; and it leaves the
\* stores as they are.
C13_FetchEmptyKey ==
    [][ret'.op = "fetchFromRAMCache" =>
          LET k == MarkKey(ret'.req, ret'.key)
              store == ram[ret'.globalKey]
          IN  /\ ram' = ram
              /\ k = "" => ret'.val = NoEntry
              /\ (k # "" /\ chooser /\ k \in DOMAIN store) =>
                    ret'.val = store[k]
              /\ (k # "" /\ chooser /\ k \notin DOMAIN store) =>
                    ret'.val = NoEntry
      ]_vars

\* A fetch that ended up with the empty key, derived from the parent's
\* path, on a store that holds an entry under the empty key.
C13_Witness ==
    /\ ret.op = "fetchFromRAMCache"
    /\ ret.key = None
    /\ getRAMCacheKey(published[ret.req], actualUrl[ret.req]) = ""
    /\ chooser
    /\ "" \in DOMAIN ram[ret.globalKey]
    /\ ret.val = NoEntry

\* The three policies that allow caching.
CachingPolicies == {"cacheInBrowser", "cacheInProxy", "cacheEverywhere"}

\* ---- C14 ----
\* C14: cacheInBrowser, cacheInProxy and cacheEverywhere each set Expires
\* to the current time, neither earlier nor later, and cacheInProxy sets
\* Cache-Control to 'max-age=0, s-maxage=<sMaxAge>, must-revalidate'.
C14_ExpiresNow ==
    ret.op \in CachingPolicies =>
        LET h == headers[ret.req]
        IN  /\ "expires" \in DOMAIN h
            /\ h["expires"] = "rfc1123:" \o ToString(now)
            /\ ret.op = "cacheInProxy" =>
                  /\ "cache-control" \in DOMAIN h
                  /\ h["cache-control"]
                        = "max-age=0, s-maxage=" \o ToString(ret.maxage)
                            \o ", must-revalidate"

\* C14 amended: the three policies each set Expires to the current time
\* minus ten years, whatever maxAge or sMaxAge is, and cacheInProxy sets
\* Cache-Control to 'max-age=0, s-maxage=<sMaxAge>, must-revalidate'.
C14_ExpiresTenYearsAgo ==
    ret.op \in CachingPolicies =>
        LET h == headers[ret.req]
        IN  /\ "expires" \in DOMAIN h
            /\ h["expires"] = "rfc1123:" \o ToString(now - 315360000)
            /\ ret.op = "cacheInProxy" =>
                  /\ "cache-control" \in DOMAIN h
                  /\ h["cache-control"]
                        = "max-age=0, s-maxage=" \o ToString(ret.maxage)
                            \o ", must-revalidate"

\* cacheInProxy with sMaxAge 3600 at time 1, on a response that carried
\* an Expires header.
C14_Witness ==
    /\ ret.op = "cacheInProxy"
    /\ ret.maxage = 3600
    /\ now = 1
    /\ "expires" \in DOMAIN ret.pre
    /\ headers[ret.req]["expires"] = "rfc1123:-315359999"
    /\ headers[ret.req]["cache-control"]
          = "max-age=0, s-maxage=3600, must-revalidate"

\* ---- C15 ----
\* C15: cacheInBrowser called with neither etag nor lastmodified leaves
\* the response with the headers doNotCache would have left it with, from
\* the same headers at the same time, whatever the headers were.
C15_BrowserWithoutValidators ==
    (ret.op = "cacheInBrowser" /\ ret.etag = None /\ ret.lastmodified = <<>>)
        => headers[ret.req] = doNotCache(ret.pre, now)

\* ---- C16 ----
\* C16: when the stage runs for a request whose status is not 200 or
\* which does not carry the marker, it returns None for text, bytes and
\* chunks alike and changes nothing: not the stores, not the status or
\* the headers of any response, not the annotations or the marker of any
\* request, and not the body, whose chunks are left unconsumed.
C16_SkipChangesNothing ==
    [][\A r \in Requests :
          (CaptureStep(r) /\ (status[r] # 200 \/ ~marked[r])) =>
              /\ result'[r] = ReturnNone
              /\ UNCHANGED <<ram, status, headers, annotations, marked,
                             attempts>>
              /\ body' = body
              /\ ~body'[r].consumed
      ]_vars

\* A marked request has passed the stage with chunks at status 404 and an
\* unmarked one with chunks at status 200.
C16_Witness ==
    \E r1, r2 \in Requests :
        /\ pc[r1] = "done" /\ pc[r2] = "done"
        /\ body[r1].shape = "iterable" /\ body[r2].shape = "iterable"
        /\ marked[r1] /\ status[r1] = 404
        /\ ~marked[r2] /\ annotatable[r2] /\ status[r2] = 200
        /\ ~body[r1].consumed /\ ~body[r2].consumed
        /\ result[r1] = ReturnNone /\ result[r2] = ReturnNone

\* ---- C17 ----
\* C17: once a response is stored under the key /k1 given to cacheInRAM,
\* a fetch with another key, given or derived, under which nothing is
\* stored returns None; every fetch leaves the stores, the entry under
\* /k1 included, as they are; and the entry is what a fetch with /k1 in
\* the store's own namespace returns, while a fetch in another namespace
\* returns None.
C17_KeyMismatchMisses ==
    [][(ret'.op = "fetchFromRAMCache"
        /\ "/k1" \in DOMAIN ram[PAGE_CACHE_KEY]) =>
          LET k2 == MarkKey(ret'.req, ret'.key)
              g == ret'.globalKey
          IN  /\ ram' = ram
              /\ (k2 # "/k1" /\ k2 \notin DOMAIN ram[g]) =>
                    ret'.val = NoEntry
              /\ (k2 = "/k1" /\ g = PAGE_CACHE_KEY) =>
                    ret'.val = ram[PAGE_CACHE_KEY]["/k1"]
              /\ g # PAGE_CACHE_KEY => ret'.val = NoEntry
      ]_vars

\* An entry lies under /k1 and none under the derived key; a fetch
\* without a key has returned None.
C17_Witness ==
    /\ ret.op = "fetchFromRAMCache"
    /\ ret.key = None /\ ret.globalKey = PAGE_CACHE_KEY
    /\ "/k1" \in DOMAIN ram[PAGE_CACHE_KEY]
    /\ CaptureKey(ret.req) = "/k1"
    /\ MarkKey(ret.req, None) \notin DOMAIN ram[PAGE_CACHE_KEY]
    /\ ret.val = NoEntry

\* Request r has passed the stage in the conditions under which it
\* captures: marked with a non-empty key, status 200, a chooser registered.
Captured(r) ==
    /\ pc[r] = "done"
    /\ status[r] = 200 /\ marked[r]
    /\ chooser /\ annotatable[r]
    /\ ~Falsy(CaptureKey(r))

\* The triple the stage takes from the response of request r.
ResponseTriple(r) == <<status[r], headers[r], BodyBytes(body[r])>>

\* ---- C18 ----
\* C18: whatever the order in which the requests are marked, rendered,
\* passed through the stage and fetched: the stage calls the store only
\* for marked requests; every entry lies under the annotated key of a
\* request that has captured and is the whole triple of one such request;
\* and when requests have captured under a key, the entry under that key
\* is the triple of one of them.
C18_ConcurrentCaptures ==
    /\ \A a \in attempts : a.marked
    /\ \A k \in DOMAIN ram[PAGE_CACHE_KEY] :
          \E r \in Requests : /\ Captured(r) /\ CaptureKey(r) = k
                               /\ ram[PAGE_CACHE_KEY][k] = ResponseTriple(r)
    /\ \A r \in Requests :
          Captured(r) =>
              \E w \in Requests :
                  /\ Captured(w) /\ CaptureKey(w) = CaptureKey(r)
                  /\ Get(ram[PAGE_CACHE_KEY], CaptureKey(r))
                        = ResponseTriple(w)

\* ---- C19 ----
\* C19: storeResponseInRAMCache files, under the annotated key, the
\* status and the headers the response has at the moment of the call,
\* with the body, and touches no other entry; and no later step that
\* sets the status or sets, overwrites or deletes a header of the response
\* changes any entry.
C19_HeaderSnapshot ==
    [][
       /\ (ret'.op = "storeResponseInRAMCache" /\ ram' # ram) =>
             LET r == ret'.req
                 k == CaptureKey(r)
             IN  /\ k \in DOMAIN ram'[PAGE_CACHE_KEY]
                 /\ ram'[PAGE_CACHE_KEY][k]
                       = <<status[r], headers[r], <<104, 105>> >>
                 /\ \A g \in GlobalKeys : \A x \in DOMAIN ram[g] :
                       (g # PAGE_CACHE_KEY \/ x # k) =>
                           /\ x \in DOMAIN ram'[g]
                           /\ ram'[g][x] = ram[g][x]
                 /\ UNCHANGED <<status, headers>>
       /\ (status' # status \/ headers' # headers) => ram' = ram
      ]_vars

\* The response was stored with a Last-Modified header and status 200;
\* since then the header has been deleted and the status set to 404, and
\* the entry still has both.
C19_Witness ==
    /\ "/k1" \in DOMAIN ram[PAGE_CACHE_KEY]
    /\ ram[PAGE_CACHE_KEY]["/k1"][1] = 200
    /\ "last-modified" \in DOMAIN ram[PAGE_CACHE_KEY]["/k1"][2]
    /\ "last-modified" \notin DOMAIN headers[1]
    /\ "etag" \in DOMAIN headers[1]
    /\ "etag" \notin DOMAIN ram[PAGE_CACHE_KEY]["/k1"][2]
    /\ status[1] = 404

\* ---- C20 ----
\* C20: a request carries the marker only if it has annotations and they
\* hold a key; after a cacheInRAM call on a request with annotations the
\* marker is set and the annotation under the annotationsKey of that call
\* is the key of that call, given or derived, whatever earlier calls
\* wrote; and when the key under the annotation key the store reads is
\* empty or missing (an empty key given or derived, or a key filed under
\* another annotation key), the stage run at status 200 with the marker
\* set leaves the stores as they are, as does storeResponseInRAMCache
\* itself for that request.
C20_MarkerAndAnnotation ==
    /\ [](\A r \in Requests :
             marked[r] => (annotatable[r] /\ DOMAIN annotations[r] # {}))
    /\ []((ret.op = "cacheInRAM" /\ annotatable[ret.req]) =>
             /\ marked[ret.req]
             /\ ret.annotationsKey \in DOMAIN annotations[ret.req]
             /\ annotations[ret.req][ret.annotationsKey]
                   = MarkKey(ret.req, ret.key))
    /\ [][\A r \in Requests :
             (/\ CaptureStep(r)
              /\ marked[r] /\ status[r] = 200
              /\ Falsy(CaptureKey(r))) =>
                 /\ ram' = ram
                 /\ storeResponseInRAMCache(
                        chooser, ram, annotatable[r], annotations[r],
                        status[r], headers[r], BodyBytes(body[r]),
                        PAGE_CACHE_KEY, PAGE_CACHE_ANNOTATION_KEY) = ram
         ]_vars

\* cacheInRAM was called twice on a request, with the key /k1 under the
\* custom annotation key and last without a key, the derived key being
\* empty; the request then passed the stage at status 200 with a chooser
\* registered, and nothing is stored.
C20_Witness ==
    /\ ret.op = "cacheInRAM" /\ ret.key = None
    /\ ret.annotationsKey = PAGE_CACHE_ANNOTATION_KEY
    /\ annotatable[ret.req] /\ marked[ret.req]
    /\ DOMAIN annotations[ret.req]
          = {PAGE_CACHE_ANNOTATION_KEY, "custom.annotation.key"}
    /\ CaptureKey(ret.req) = ""
    /\ pc[ret.req] = "done" /\ status[ret.req] = 200
    /\ chooser
    /\ ram = NoStores

====
